---- MODULE Spec2Model ----
(***************************************************************************)
(* A model of gtfs-fixer (src/main.rs): the coordinate formatter, the      *)
(* header column resolver, and the per-file rewrite pipeline               *)
(* (read -> transform -> temp file -> flush -> rename) driven by main.     *)
(*                                                                         *)
(* Text is a sequence of one-character strings, so trimming, lowercasing,  *)
(* parsing and fixed-point rendering are computed character by character.  *)
(* A CSV file is the sequence of records the csv crate reads from it or    *)
(* writes to it; a record is a sequence of text fields.                    *)
(***************************************************************************)
EXTENDS Integers, Sequences, FiniteSets, TLC

(***************************************************************************)
(* Configuration constants (main.rs lines 9-22)                            *)
(***************************************************************************)
STOPS_FILENAME == "stops.txt"
SHAPES_FILENAME == "shapes.txt"
TEMP_SUFFIX == ".tmp"
STOP_LAT_COLUMN_NAME == <<"s","t","o","p","_","l","a","t">>
STOP_LON_COLUMN_NAME == <<"s","t","o","p","_","l","o","n">>
SHAPE_LAT_COLUMN_NAME == <<"s","h","a","p","e","_","p","t","_","l","a","t">>
SHAPE_LON_COLUMN_NAME == <<"s","h","a","p","e","_","p","t","_","l","o","n">>
COORDINATE_PRECISION == 8

(***************************************************************************)
(* Text primitives of the Rust standard library used by the program        *)
(***************************************************************************)
DigitChars == <<"0","1","2","3","4","5","6","7","8","9">>
IsDigit(c) == \E i \in 1..10 : DigitChars[i] = c
DigitVal(c) == (CHOOSE i \in 1..10 : DigitChars[i] = c) - 1
DigitChar(d) == DigitChars[d + 1]

WhiteSpace == {" ", "\t"}

UpperChars == <<"A","B","C","D","E","F","G","H","I","J","K","L","M",
                "N","O","P","Q","R","S","T","U","V","W","X","Y","Z">>
LowerChars == <<"a","b","c","d","e","f","g","h","i","j","k","l","m",
                "n","o","p","q","r","s","t","u","v","w","x","y","z">>

\* char::to_lowercase
to_lowercase_char(c) ==
    IF \E i \in 1..26 : UpperChars[i] = c
    THEN LowerChars[CHOOSE i \in 1..26 : UpperChars[i] = c]
    ELSE c

\* str::to_lowercase
to_lowercase(s) == [i \in 1..Len(s) |-> to_lowercase_char(s[i])]

RECURSIVE trim_start(_)
trim_start(s) ==
    IF s # <<>> /\ Head(s) \in WhiteSpace THEN trim_start(Tail(s)) ELSE s

RECURSIVE trim_end(_)
trim_end(s) ==
    IF s # <<>> /\ s[Len(s)] \in WhiteSpace
    THEN trim_end(SubSeq(s, 1, Len(s) - 1))
    ELSE s

\* str::trim
trim(s) == trim_end(trim_start(s))

(***************************************************************************)
(* str::parse::<f64>.  The accepted grammar is                             *)
(*   Float  ::= Sign? ( 'inf' | 'infinity' | 'nan' | Number )              *)
(*   Number ::= ( Digit+ | Digit+ '.' Digit* | Digit* '.' Digit+ ) Exp?    *)
(*   Exp    ::= 'e' Sign? Digit+          (letters in either case)         *)
(* A finite value is kept as its decimal digits and the position of the    *)
(* decimal point: value = 0.d1 d2 ... dn * 10^point, d1 # 0.               *)
(***************************************************************************)
F64_MAX_10_EXP == 308

ParseError == [ok |-> FALSE]
Finite(neg, digits, point) ==
    [ok |-> TRUE, kind |-> "finite", neg |-> neg, digits |-> digits, point |-> point]
NonFinite(kind, neg) ==
    [ok |-> TRUE, kind |-> kind, neg |-> neg, digits |-> <<>>, point |-> 0]

RECURSIVE DigitPrefixLen(_)
DigitPrefixLen(s) ==
    IF s = <<>> \/ ~IsDigit(Head(s)) THEN 0 ELSE 1 + DigitPrefixLen(Tail(s))

RECURSIVE LeadingZeros(_)
LeadingZeros(ds) ==
    IF ds = <<>> \/ Head(ds) # 0 THEN 0 ELSE 1 + LeadingZeros(Tail(ds))

\* The value of a digit string, saturated far beyond any f64 exponent.
RECURSIVE NatVal(_)
NatVal(s) ==
    IF s = <<>> THEN 0
    ELSE LET v == 10 * NatVal(SubSeq(s, 1, Len(s) - 1)) + DigitVal(s[Len(s)])
         IN  IF v > 100000 THEN 100000 ELSE v

\* Decimal digits and point position to the f64 it denotes: zero whatever
\* the exponent, infinity above the largest finite magnitude.
ToF64(neg, ds, point) ==
    LET z == LeadingZeros(ds)
        d == SubSeq(ds, z + 1, Len(ds))
        p == point - z
    IN  IF d = <<>> THEN Finite(neg, <<>>, 0)
        ELSE IF p - 1 > F64_MAX_10_EXP THEN NonFinite("inf", neg)
        ELSE Finite(neg, d, p)

ParseNumber(t, neg) ==
    LET n1 == DigitPrefixLen(t)
        r1 == SubSeq(t, n1 + 1, Len(t))
        hasDot == r1 # <<>> /\ Head(r1) = "."
        r2 == IF hasDot THEN Tail(r1) ELSE r1
        n2 == IF hasDot THEN DigitPrefixLen(r2) ELSE 0
        r3 == SubSeq(r2, n2 + 1, Len(r2))
        hasExp == r3 # <<>> /\ Head(r3) \in {"e", "E"}
        r4 == IF hasExp THEN Tail(r3) ELSE r3
        hasESign == hasExp /\ r4 # <<>> /\ Head(r4) \in {"+", "-"}
        eNeg == hasESign /\ Head(r4) = "-"
        r5 == IF hasESign THEN Tail(r4) ELSE r4
        n3 == DigitPrefixLen(r5)
        ok == /\ n1 + n2 > 0
              /\ IF hasExp THEN n3 > 0 /\ n3 = Len(r5) ELSE r3 = <<>>
        e == IF hasExp THEN (IF eNeg THEN 0 - NatVal(r5) ELSE NatVal(r5)) ELSE 0
        ds == [i \in 1..(n1 + n2) |->
                  DigitVal(IF i <= n1 THEN t[i] ELSE r2[i - n1])]
    IN  IF ok THEN ToF64(neg, ds, n1 + e) ELSE ParseError

ParseF64(s) ==
    LET hasSign == s # <<>> /\ Head(s) \in {"+", "-"}
        neg == hasSign /\ Head(s) = "-"
        t == IF hasSign THEN Tail(s) ELSE s
        lt == to_lowercase(t)
    IN  IF lt \in {<<"i","n","f">>, <<"i","n","f","i","n","i","t","y">>}
        THEN NonFinite("inf", neg)
        ELSE IF lt = <<"n","a","n">> THEN NonFinite("nan", neg)
        ELSE ParseNumber(t, neg)

(***************************************************************************)
(* format!("{:.prec$}", val): fixed-point rendering with prec digits after *)
(* the point, rounded half to even on the value's digits; infinities and   *)
(* NaN render as "inf", "-inf" and "NaN" whatever the precision.           *)
(***************************************************************************)
RECURSIVE Increment(_)
Increment(ds) ==
    IF ds = <<>> THEN <<1>>
    ELSE IF ds[Len(ds)] < 9 THEN [ds EXCEPT ![Len(ds)] = @ + 1]
    ELSE Increment(SubSeq(ds, 1, Len(ds) - 1)) \o <<0>>

FormatFixed(val, prec) ==
    LET D == val.digits
        p == val.point
        Dig(i) == IF i >= 1 /\ i <= Len(D) THEN D[i] ELSE 0
        lo == IF p >= 1 THEN 1 ELSE p
        n == p + prec - lo + 1
        kept == [k \in 1..n |-> Dig(lo + k - 1)]
        r == Dig(p + prec + 1)
        sticky == \E i \in 1..Len(D) : i > p + prec + 1 /\ D[i] # 0
        roundUp == r > 5 \/ (r = 5 /\ (sticky \/ kept[n] % 2 = 1))
        R == IF roundUp THEN Increment(kept) ELSE kept
        ni == Len(R) - prec
        sign == IF val.neg THEN <<"-">> ELSE <<>>
    IN  IF val.kind = "nan" THEN <<"N","a","N">>
        ELSE IF val.kind = "inf" THEN sign \o <<"i","n","f">>
        ELSE sign \o [i \in 1..ni |-> DigitChar(R[i])]
                  \o (IF prec > 0 THEN <<".">> ELSE <<>>)
                  \o [i \in 1..prec |-> DigitChar(R[ni + i])]

\* fn format_coordinate (main.rs lines 33-40)
format_coordinate(value_str) ==
    LET parsed == ParseF64(trim(value_str))
    IN  IF parsed.ok THEN FormatFixed(parsed, COORDINATE_PRECISION)
        ELSE value_str

(***************************************************************************)
(* fn find_column_indices (main.rs lines 52-75)                            *)
(***************************************************************************)
\* A resolver that forgets to trim the header field.
header_key_untrimmed(name) == to_lowercase(name)

\* The key a header field is stored under (line 61).
header_key(name) == to_lowercase(trim(name))

\* Lines 58-62: collecting (key, index) pairs into a HashMap keeps, for a
\* key that occurs several times, the pair inserted last.
header_map(hdr) ==
    [k \in {header_key(hdr[i]) : i \in 1..Len(hdr)} |->
        (CHOOSE i \in 1..Len(hdr) :
            /\ header_key(hdr[i]) = k
            /\ \A j \in 1..Len(hdr) : header_key(hdr[j]) = k => j <= i) - 1]

\* A resolver that gives a required name without an entry position 0
\* instead of failing.
find_column_indices_defaulting(hdr, col_names) ==
    LET hm == header_map(hdr)
    IN  [ok |-> TRUE, column |-> <<>>,
         indices |-> [n \in {to_lowercase(col_names[k]) : k \in 1..Len(col_names)} |->
                         IF n \in DOMAIN hm THEN hm[n] ELSE 0]]

\* Lines 65-74: the first required name without an entry ends the search
\* with an error that names it.
find_column_indices(hdr, col_names) ==
    LET hm == header_map(hdr)
        absent == {k \in 1..Len(col_names) :
                      to_lowercase(col_names[k]) \notin DOMAIN hm}
        first == CHOOSE k \in absent : \A j \in absent : k <= j
    IN  IF absent # {}
        THEN [ok |-> FALSE, column |-> col_names[first], indices |-> <<>>]
        ELSE [ok |-> TRUE, column |-> <<>>,
              indices |-> [n \in {to_lowercase(col_names[k]) :
                                     k \in 1..Len(col_names)} |-> hm[n]]]

(***************************************************************************)
(* The directory, and the values process_gtfs_file returns                 *)
(***************************************************************************)
Filenames == {STOPS_FILENAME, SHAPES_FILENAME}

\* Line 97: the temporary file's name.
temp_output_filename(filename) == filename \o TEMP_SUFFIX

Paths == Filenames \cup {temp_output_filename(f) : f \in Filenames}

Absent == [exists |-> FALSE, data |-> <<>>]
FileOf(records) == [exists |-> TRUE, data |-> records]

lat_col_name(filename) ==
    IF filename = STOPS_FILENAME THEN STOP_LAT_COLUMN_NAME ELSE SHAPE_LAT_COLUMN_NAME
lon_col_name(filename) ==
    IF filename = STOPS_FILENAME THEN STOP_LON_COLUMN_NAME ELSE SHAPE_LON_COLUMN_NAME

Pending == [tag |-> "Pending", kind |-> "", column |-> <<>>]
Ok == [tag |-> "Ok", kind |-> "", column |-> <<>>]
Err(kind, column) == [tag |-> "Err", kind |-> kind, column |-> column]

(***************************************************************************)
(* Lines 190-202: the output fields of one record.                         *)
(***************************************************************************)
\* A transform that formats every field, not only the two coordinates.
output_fields_all(record, lat_idx, lon_idx) ==
    [i \in 1..Len(record) |-> format_coordinate(record[i])]

output_fields(record, lat_idx, lon_idx) ==
    [i \in 1..Len(record) |->
        IF i - 1 = lat_idx \/ i - 1 = lon_idx
        THEN format_coordinate(record[i])
        ELSE record[i]]

\* Line 179: the record cannot reach one of the two columns.
is_malformed(record, lat_idx, lon_idx) ==
    Len(record) <= lat_idx \/ Len(record) <= lon_idx

\* Lines 116-118: the reader is built without flexible(true), so a record
\* whose field count differs from the header's is an error of read_record.
unequal_lengths(record, hdr) == Len(record) # Len(hdr)

\* Line 126: the header is the first record, empty for an empty file.
read_headers(records) == IF records = <<>> THEN <<>> ELSE records[1]

\* A reader that hands the header row out again as the first data record.
first_data_position_rereading(has_headers) == 1

\* Lines 117 and 177: with has_headers(true) the data records follow the
\* header row.
first_data_position(has_headers) == IF has_headers THEN 2 ELSE 1

(***************************************************************************)
(* Bounds of the model                                                     *)
(***************************************************************************)
\* Data rows per input file.
MaxRows == 2
\* Records the writer holds in memory before it writes them to the file.
BufCapacity == 1

\* Line 209: the progress message is printed every so many records.
PROGRESS_INTERVAL == 5000

(***************************************************************************)
(* State                                                                   *)
(***************************************************************************)
VARIABLES
    argc,            \* args.len()
    is_dir,          \* whether args[1] names a directory
    fs,              \* the directory: path -> [exists, data]
    pc,              \* where the program is
    filename,        \* process_gtfs_file's argument
    input,           \* the records of the file csv_reader has open
    next_rec,        \* csv_reader's position in input
    headers,
    lat_col_idx,
    lon_col_idx,
    writer_open,     \* csv_writer exists
    out_buf,         \* records csv_writer holds that are not yet in the file
    processed_count,
    stops_result,
    shapes_result,
    exit_code,       \* <<>> while running, <<code>> once exited
    fs_at_call,      \* history: the directory when process_gtfs_file was entered
    temp_created,    \* history: File::create succeeded in this call
    kept_rows,       \* history: input positions of the records written
    first_rewrite,   \* history: per file, its first replacement: before and after
    value_str,       \* the formatter on its own: its argument
    formatted        \* the formatter on its own: its result

env == <<argc, is_dir>>
locals == <<input, next_rec, headers, lat_col_idx, lon_col_idx, processed_count>>
writer == <<writer_open, out_buf>>
results == <<stops_result, shapes_result>>
callhist == <<fs_at_call, temp_created, kept_rows>>
mainvars == <<env, fs, pc, filename, locals, writer, results, exit_code,
              callhist, first_rewrite>>
fmtvars == <<value_str, formatted>>
vars == <<mainvars, fmtvars>>

Unformatted == <<"<", "n", "o", "n", "e", ">">>

(***************************************************************************)
(* Input files of the model                                                *)
(***************************************************************************)
Id == <<"i","d">>
FieldTexts == { <<"4","5",".","1">>, <<"N","/","A">> }
OtherTexts == { <<"7">> }

StopsHeaders ==
    { <<Id, STOP_LAT_COLUMN_NAME, STOP_LON_COLUMN_NAME>>,
      <<<<" ","S","t","o","p","_","L","a","t">>,
        <<"S","T","O","P","_","L","O","N"," ">>>>,
      <<STOP_LON_COLUMN_NAME, Id, STOP_LAT_COLUMN_NAME, STOP_LON_COLUMN_NAME>>,
      <<Id, STOP_LAT_COLUMN_NAME>> }
ShapesHeaders ==
    { <<SHAPE_LAT_COLUMN_NAME, SHAPE_LON_COLUMN_NAME>>,
      <<Id, SHAPE_LON_COLUMN_NAME>> }

CoordinateNames ==
    { STOP_LAT_COLUMN_NAME, STOP_LON_COLUMN_NAME,
      SHAPE_LAT_COLUMN_NAME, SHAPE_LON_COLUMN_NAME }

\* The texts a column holds: coordinates or not-a-number marks in a
\* coordinate column, a number in any other.
ColumnTexts(name) ==
    IF header_key(name) \in CoordinateNames THEN FieldTexts ELSE OtherTexts

\* Rows with a field for each of the first n columns of the header.
RowsOfLen(hdr, n) ==
    {r \in [1..n -> FieldTexts \cup OtherTexts] :
        \A i \in 1..n : r[i] \in ColumnTexts(hdr[i])}

\* Complete rows, and rows one field short.
Rows(hdr) == RowsOfLen(hdr, Len(hdr)) \cup RowsOfLen(hdr, Len(hdr) - 1)

SeqsUpTo(S, n) == UNION {[1..k -> S] : k \in 0..n}

Files(hdrs) ==
    {<<>>} \cup UNION {{<<h>> \o rows : rows \in SeqsUpTo(Rows(h), MaxRows)} : h \in hdrs}

SimpleStops ==
    << <<Id, STOP_LAT_COLUMN_NAME, STOP_LON_COLUMN_NAME>>,
       << <<"7">>, <<"4","5",".","1">>, <<"N","/","A">> >> >>
SimpleShapes ==
    << <<SHAPE_LAT_COLUMN_NAME, SHAPE_LON_COLUMN_NAME>>,
       << <<"4","5",".","1">>, <<"4","5",".","1">> >> >>

Directory(stops, shapes) ==
    [p \in Paths |-> IF p = STOPS_FILENAME THEN stops
                     ELSE IF p = SHAPES_FILENAME THEN shapes
                     ELSE Absent]

Directories ==
    {Directory(a, b) :
        a \in {Absent} \cup {FileOf(f) : f \in Files(StopsHeaders)},
        b \in {Absent, FileOf(SimpleShapes)}}
    \cup
    {Directory(a, b) :
        a \in {Absent, FileOf(SimpleStops)},
        b \in {FileOf(f) : f \in Files(ShapesHeaders)}}

EmptyDirectory == [p \in Paths |-> Absent]

(***************************************************************************)
(* Initial states                                                          *)
(***************************************************************************)
NoRewrite == [done |-> FALSE, before |-> <<>>, after |-> <<>>]

Idle ==
    /\ filename = ""
    /\ input = <<>>
    /\ next_rec = 1
    /\ headers = <<>>
    /\ lat_col_idx = 0
    /\ lon_col_idx = 0
    /\ processed_count = 0
    /\ writer_open = FALSE
    /\ out_buf = <<>>
    /\ stops_result = Pending
    /\ shapes_result = Pending
    /\ exit_code = <<>>
    /\ fs_at_call = EmptyDirectory
    /\ temp_created = FALSE
    /\ kept_rows = <<>>
    /\ first_rewrite = [f \in Filenames |-> NoRewrite]

\* The program is started with one, two or three arguments (its own name
\* included) on a path that is a directory with files in it, or is not.
Init ==
    /\ argc \in 1..3
    /\ is_dir \in BOOLEAN
    /\ fs \in IF argc = 2 /\ is_dir THEN Directories ELSE {EmptyDirectory}
    /\ pc = "main"
    /\ Idle
    /\ value_str = <<>>
    /\ formatted = Unformatted

(***************************************************************************)
(* process_gtfs_file (main.rs lines 89-236), one action per step.  A step  *)
(* that does I/O succeeds or fails as the operating system decides.        *)
(***************************************************************************)
temp_output_path == temp_output_filename(filename)

\* The caller's statement after the call.
AfterCall == IF filename = STOPS_FILENAME THEN "after_stops" ELSE "after_shapes"

\* process_gtfs_file's own variables, before it sets them and after it
\* has returned.
LocalsGone ==
    /\ input' = <<>>
    /\ next_rec' = 1
    /\ headers' = <<>>
    /\ lat_col_idx' = 0
    /\ lon_col_idx' = 0
    /\ processed_count' = 0

\* Entering process_gtfs_file (lines 259-264 and 290-295).
Call(f) ==
    /\ pc' = "exists"
    /\ filename' = f
    /\ LocalsGone
    /\ writer_open' = FALSE
    /\ out_buf' = <<>>
    /\ fs_at_call' = fs
    /\ temp_created' = FALSE
    /\ kept_rows' = <<>>

\* Returning res to main.
Return(res) ==
    /\ pc' = AfterCall
    /\ stops_result' = IF filename = STOPS_FILENAME THEN res ELSE stops_result
    /\ shapes_result' = IF filename = SHAPES_FILENAME THEN res ELSE shapes_result
    /\ LocalsGone

\* The records of the temporary file once buf has been written to it.
Appended(dir, buf) ==
    [dir EXCEPT ![temp_output_path].data = @ \o buf]

\* csv_writer, when it exists, is dropped on return, and its Drop writes
\* what it holds to the file if the file takes it.
DropWriter(buf) ==
    /\ IF writer_open
       THEN \E flushed \in BOOLEAN :
                fs' = IF flushed THEN Appended(fs, buf) ELSE fs
       ELSE fs' = fs
    /\ writer_open' = FALSE
    /\ out_buf' = <<>>

\* Returning an error with `?`.
ReturnErr(kind, column) ==
    /\ Return(Err(kind, column))
    /\ DropWriter(out_buf)

\* Lines 103-111: a file that does not exist is skipped with Ok(()).
P_Exists ==
    /\ pc = "exists"
    /\ IF ~fs[filename].exists
       THEN /\ Return(Ok)
            /\ UNCHANGED <<fs, writer>>
       ELSE /\ pc' = "open"
            /\ UNCHANGED <<fs, writer, results, locals>>
    /\ UNCHANGED <<env, filename, exit_code, callhist, first_rewrite, fmtvars>>

\* Lines 112-118: File::open and the reader over it.
P_Open ==
    /\ pc = "open"
    /\ \E ok \in BOOLEAN :
        IF ok
        THEN /\ pc' = "headers"
             /\ input' = fs[filename].data
             /\ UNCHANGED <<fs, writer, results, next_rec, headers, lat_col_idx,
                            lon_col_idx, processed_count>>
        ELSE ReturnErr("Open", <<>>)
    /\ UNCHANGED <<env, filename, exit_code, callhist, first_rewrite, fmtvars>>

\* Line 126: csv_reader.headers()?.clone()
P_Headers ==
    /\ pc = "headers"
    /\ \E ok \in BOOLEAN :
        IF ok
        THEN /\ pc' = "columns"
             /\ headers' = read_headers(input)
             /\ next_rec' = first_data_position(TRUE)
             /\ UNCHANGED <<fs, writer, results, input, lat_col_idx,
                            lon_col_idx, processed_count>>
        ELSE ReturnErr("ReadHeaders", <<>>)
    /\ UNCHANGED <<env, filename, exit_code, callhist, first_rewrite, fmtvars>>

\* Lines 129-158: the two columns are looked up; a missing one ends the call.
P_Columns ==
    /\ pc = "columns"
    /\ LET required_columns == <<lat_col_name(filename), lon_col_name(filename)>>
           found == find_column_indices(headers, required_columns)
       IN  IF found.ok
           THEN /\ pc' = "create"
                /\ lat_col_idx' = found.indices[to_lowercase(lat_col_name(filename))]
                /\ lon_col_idx' = found.indices[to_lowercase(lon_col_name(filename))]
                /\ UNCHANGED <<fs, writer, results, input, next_rec, headers,
                               processed_count>>
           ELSE ReturnErr("ColumnNotFound", found.column)
    /\ UNCHANGED <<env, filename, exit_code, callhist, first_rewrite, fmtvars>>

\* Lines 161-163: File::create makes the temporary file, or empties one
\* that is there, and the writer is built over it.
P_Create ==
    /\ pc = "create"
    /\ \E ok \in BOOLEAN :
        IF ok
        THEN /\ pc' = "write_header"
             /\ fs' = [fs EXCEPT ![temp_output_path] = FileOf(<<>>)]
             /\ writer_open' = TRUE
             /\ temp_created' = TRUE
             /\ UNCHANGED <<out_buf, results, locals>>
        ELSE /\ ReturnErr("Create", <<>>)
             /\ UNCHANGED temp_created
    /\ UNCHANGED <<env, filename, exit_code, fs_at_call, kept_rows,
                   first_rewrite, fmtvars>>

\* csv_writer.write_record: the record goes to the writer's buffer; a full
\* buffer is first written to the file, which is where a write can fail.
buffer_full == Len(out_buf) >= BufCapacity

\* Line 166: the header is written as it was read.
P_WriteHeader ==
    /\ pc = "write_header"
    /\ \E ok \in BOOLEAN :
        IF ~buffer_full
        THEN /\ ok
             /\ pc' = "records"
             /\ out_buf' = out_buf \o <<headers>>
             /\ UNCHANGED <<fs, writer_open, results, locals>>
        ELSE IF ok
        THEN /\ pc' = "records"
             /\ fs' = Appended(fs, out_buf)
             /\ out_buf' = <<headers>>
             /\ UNCHANGED <<writer_open, results, locals>>
        ELSE ReturnErr("WriteHeader", <<>>)
    /\ UNCHANGED <<env, filename, exit_code, callhist, first_rewrite, fmtvars>>

\* Lines 177-213: one turn of the loop over the data records.
P_Record ==
    /\ pc = "records"
    /\ \E read_ok \in BOOLEAN, write_ok \in BOOLEAN, stdout_ok \in BOOLEAN :
        IF ~read_ok
        THEN \* line 177: read_record fails on the input
             /\ write_ok /\ stdout_ok
             /\ ReturnErr("ReadRecord", <<>>)
             /\ UNCHANGED kept_rows
        ELSE IF next_rec > Len(input)
        THEN \* line 177: no record is left
             /\ write_ok /\ stdout_ok
             /\ pc' = "flush"
             /\ UNCHANGED <<fs, writer, results, locals, kept_rows>>
        ELSE LET record == input[next_rec] IN
             IF unequal_lengths(record, headers)
             THEN \* line 177: the reader refuses the record
                  /\ write_ok /\ stdout_ok
                  /\ ReturnErr("UnequalLengths", <<>>)
                  /\ UNCHANGED kept_rows
             ELSE IF is_malformed(record, lat_col_idx, lon_col_idx)
             THEN \* lines 179-188: the record is skipped
                  /\ write_ok /\ stdout_ok
                  /\ pc' = "records"
                  /\ next_rec' = next_rec + 1
                  /\ UNCHANGED <<fs, writer, results, input, headers, lat_col_idx,
                                 lon_col_idx, processed_count, kept_rows>>
             ELSE LET out == output_fields(record, lat_col_idx, lon_col_idx)
                      progress == (processed_count + 1) % PROGRESS_INTERVAL = 0
                  IN
                  IF ~write_ok
                  THEN \* line 205: write_record fails writing a full buffer out
                       /\ buffer_full /\ stdout_ok
                       /\ ReturnErr("WriteRecord", <<>>)
                       /\ UNCHANGED kept_rows
                  ELSE IF ~stdout_ok
                  THEN \* line 211: stdout().flush() fails after the write
                       /\ progress
                       /\ Return(Err("StdoutFlush", <<>>))
                       /\ DropWriter(out_buf \o <<out>>)
                       /\ kept_rows' = Append(kept_rows, next_rec)
                  ELSE \* lines 205-206: the record is written and counted
                       /\ pc' = "records"
                       /\ fs' = IF buffer_full THEN Appended(fs, out_buf) ELSE fs
                       /\ out_buf' = IF buffer_full THEN <<out>> ELSE out_buf \o <<out>>
                       /\ next_rec' = next_rec + 1
                       /\ processed_count' = processed_count + 1
                       /\ kept_rows' = Append(kept_rows, next_rec)
                       /\ UNCHANGED <<writer_open, results, input, headers,
                                      lat_col_idx, lon_col_idx>>
    /\ UNCHANGED <<env, filename, exit_code, fs_at_call, temp_created,
                   first_rewrite, fmtvars>>

\* A flush that does not write the buffered records out.
flushed_file_lost(dir, buf) == dir

\* What csv_writer.flush() leaves in the temporary file.
flushed_file(dir, buf) == Appended(dir, buf)

\* Line 221: csv_writer.flush()?
P_Flush ==
    /\ pc = "flush"
    /\ \E ok \in BOOLEAN :
        IF ok
        THEN /\ pc' = "rename"
             /\ fs' = flushed_file(fs, out_buf)
             /\ out_buf' = <<>>
             /\ UNCHANGED <<writer_open, results, locals>>
        ELSE ReturnErr("Flush", <<>>)
    /\ UNCHANGED <<env, filename, exit_code, callhist, first_rewrite, fmtvars>>

\* A replacement by copying, which leaves the file at `from` behind.
renamed_by_copy(dir, from, to) ==
    [dir EXCEPT ![to] = dir[from]]

\* rename(from, to): the file at `from` takes the place of the one at `to`.
renamed(dir, from, to) ==
    [dir EXCEPT ![to] = dir[from], ![from] = Absent]

\* Lines 229-235: the temporary file replaces the original and the call
\* returns Ok(()).
P_Rename ==
    /\ pc = "rename"
    /\ \E ok \in BOOLEAN :
        IF ok
        THEN /\ Return(Ok)
             /\ fs' = renamed(fs, temp_output_path, filename)
             /\ writer_open' = FALSE
             /\ first_rewrite' =
                    IF first_rewrite[filename].done THEN first_rewrite
                    ELSE [first_rewrite EXCEPT ![filename] =
                            [done |-> TRUE, before |-> fs[filename].data,
                             after |-> fs'[filename].data]]
             /\ UNCHANGED out_buf
        ELSE /\ ReturnErr("Rename", <<>>)
             /\ UNCHANGED first_rewrite
    /\ UNCHANGED <<env, filename, exit_code, callhist, fmtvars>>

(***************************************************************************)
(* main (main.rs lines 238-319)                                            *)
(***************************************************************************)
\* std::process::exit(code), and falling off the end of main with 0.
Exit(code) ==
    /\ pc' = "exited"
    /\ exit_code' = <<code>>
    /\ filename' = ""
    /\ fs_at_call' = EmptyDirectory
    /\ temp_created' = FALSE
    /\ kept_rows' = <<>>

\* Lines 240-264: the argument count, the directory check, then stops.txt.
Main_Start ==
    /\ pc = "main"
    /\ IF argc # 2 \/ ~is_dir
       THEN /\ Exit(1)
            /\ UNCHANGED <<locals, writer>>
       ELSE /\ Call(STOPS_FILENAME)
            /\ UNCHANGED exit_code
    /\ UNCHANGED <<env, fs, results, first_rewrite, fmtvars>>

\* Lines 272-283 and 303-314: the temporary file, if there is one, is
\* removed, or stays when remove_file fails.
Cleanup(f) ==
    IF fs[temp_output_filename(f)].exists
    THEN \E removed \in BOOLEAN :
            fs' = IF removed
                  THEN [fs EXCEPT ![temp_output_filename(f)] = Absent]
                  ELSE fs
    ELSE fs' = fs

\* Lines 266-295: after stops.txt, exit on an error or go on to shapes.txt.
Main_AfterStops ==
    /\ pc = "after_stops"
    /\ IF stops_result.tag = "Err"
       THEN /\ Cleanup(STOPS_FILENAME)
            /\ Exit(1)
            /\ UNCHANGED <<locals, writer>>
       ELSE /\ Call(SHAPES_FILENAME)
            /\ UNCHANGED <<fs, exit_code>>
    /\ UNCHANGED <<env, results, first_rewrite, fmtvars>>

\* A main that cleans up after a failure on shapes.txt but still exits 0.
Main_AfterShapes_Forgiving ==
    /\ pc = "after_shapes"
    /\ IF shapes_result.tag = "Err"
       THEN Cleanup(SHAPES_FILENAME)
       ELSE fs' = fs
    /\ Exit(0)
    /\ UNCHANGED <<env, locals, writer, results, first_rewrite, fmtvars>>

\* Lines 297-319: after shapes.txt, exit with 1 on an error and 0 otherwise.
Main_AfterShapes ==
    /\ pc = "after_shapes"
    /\ IF shapes_result.tag = "Err"
       THEN /\ Cleanup(SHAPES_FILENAME)
            /\ Exit(1)
       ELSE /\ fs' = fs
            /\ Exit(0)
    /\ UNCHANGED <<env, locals, writer, results, first_rewrite, fmtvars>>

\* After a run that succeeded the program is started again, with the same
\* arguments, on the directory as that run left it.
Rerun ==
    /\ pc = "exited"
    /\ exit_code = <<0>>
    /\ pc' = "main"
    /\ exit_code' = <<>>
    /\ stops_result' = Pending
    /\ shapes_result' = Pending
    /\ UNCHANGED <<env, fs, filename, locals, writer, callhist, first_rewrite,
                   fmtvars>>

Next ==
    \/ Main_Start
    \/ P_Exists
    \/ P_Open
    \/ P_Headers
    \/ P_Columns
    \/ P_Create
    \/ P_WriteHeader
    \/ P_Record
    \/ P_Flush
    \/ P_Rename
    \/ Main_AfterStops
    \/ Main_AfterShapes
    \/ Rerun

Spec == Init /\ [][Next]_vars

(***************************************************************************)
(* The formatter on its own: a field text is drawn from a bounded grammar  *)
(* (padding, sign, mantissa, exponent, and words that are not numbers) and *)
(* format_coordinate is applied to it once.                                *)
(***************************************************************************)
Pads == {<<>>, <<" ">>}
Signs == {<<>>, <<"-">>, <<"+">>}
Mantissas ==
    { <<>>, <<"0">>, <<"7">>, <<"0","0","7">>, <<"4","5",".","1">>,
      <<"7","3",".">>, <<".","2","5">>, <<".">>,
      <<"0",".","1","2","3","4","5","6","7","8","9">> }
Exponents ==
    { <<>>, <<"e","2">>, <<"E","-","9">>, <<"e","+","1">>, <<"e">>,
      <<"e","9","9","9">>, <<"e","-","9","9","9">> }
Words ==
    { <<"n","a","n">>, <<"N","a","N">>, <<"i","n","f">>,
      <<"I","n","f","i","n","i","t","y">>, <<"N","/","A">>,
      <<"n","o","r","t","h">>, <<"1",",","5">>, <<"4","5"," ","1">> }

TextInputs ==
    { l \o s \o b \o t : l \in Pads, t \in Pads, s \in Signs,
        b \in {m \o e : m \in Mantissas, e \in Exponents} \cup Words }

InitFmt ==
    /\ value_str \in TextInputs
    /\ formatted = Unformatted
    /\ argc = 2
    /\ is_dir = TRUE
    /\ fs = EmptyDirectory
    /\ pc = "format"
    /\ Idle

FormatCoordinate ==
    /\ pc = "format"
    /\ formatted = Unformatted
    /\ formatted' = format_coordinate(value_str)
    /\ UNCHANGED <<value_str, mainvars>>

NextFmt == FormatCoordinate

SpecFmt == InitFmt /\ [][NextFmt]_vars

(***************************************************************************)
(* What the claims speak of, stated apart from the pipeline's own steps    *)
(***************************************************************************)
\* The result of the call in progress or just returned.
CurrentResult ==
    IF filename = STOPS_FILENAME THEN stops_result ELSE shapes_result

InCall == filename \in Filenames
Returned == InCall /\ pc = AfterCall
Replaced == Returned /\ CurrentResult = Ok /\ temp_created

\* The file at the input path when the call was entered.
Original == fs_at_call[filename]

SameIgnoringCase(a, b) ==
    /\ Len(a) = Len(b)
    /\ \A i \in 1..Len(a) : to_lowercase_char(a[i]) = to_lowercase_char(b[i])

\* Header positions (1-based) whose field is `name` whatever the case.
ExactMatches(hdr, name) ==
    {i \in 1..Len(hdr) : SameIgnoringCase(hdr[i], name)}

\* Header positions (1-based) whose field, surrounding whitespace taken
\* off, is `name` whatever the case.
Matches(hdr, name) ==
    {i \in 1..Len(hdr) : SameIgnoringCase(trim(hdr[i]), name)}

Last(S) == CHOOSE i \in S : \A j \in S : j <= i

HeaderOf(data) == IF data = <<>> THEN <<>> ELSE data[1]

Resolves(data, f) ==
    /\ Matches(HeaderOf(data), lat_col_name(f)) # {}
    /\ Matches(HeaderOf(data), lon_col_name(f)) # {}

\* The 0-based positions of the two coordinate columns of a file.
LatIndex(data, f) == Last(Matches(HeaderOf(data), lat_col_name(f))) - 1
LonIndex(data, f) == Last(Matches(HeaderOf(data), lon_col_name(f))) - 1

\* A row that does not reach the larger of the two positions.
TooShort(row, data, f) ==
    Len(row) <= LatIndex(data, f) \/ Len(row) <= LonIndex(data, f)

\* The complete output for a file: its header, then every row that reaches
\* both positions, the two coordinate fields reformatted.
Transformed(data, f) ==
    LET la == LatIndex(data, f)
        lo == LonIndex(data, f)
        Reaches(row) == ~TooShort(row, data, f)
        rows == SelectSeq(Tail(data), Reaches)
    IN  <<data[1]>> \o
        [k \in 1..Len(rows) |->
            [i \in 1..Len(rows[k]) |->
                IF i - 1 = la \/ i - 1 = lo
                THEN format_coordinate(rows[k][i])
                ELSE rows[k][i]]]

\* Error kinds of steps that fail because the operating system refuses.
IoKinds == {"Open", "ReadHeaders", "Create", "WriteHeader", "ReadRecord",
            "WriteRecord", "StdoutFlush", "Flush", "Rename"}

(***************************************************************************)
(* C1.  During a call of process_gtfs_file, and when it has returned, with *)
(* an error or not, the file at the input path is the original or the      *)
(* complete transformed output; it is the original until the rename, which *)
(* is the last step, after the header and every row were written and       *)
(* flushed; the other input file is not touched.                           *)
(***************************************************************************)
C1_OriginalOrComplete ==
    InCall =>
        /\ \A g \in Filenames \ {filename} : fs[g] = fs_at_call[g]
        /\ IF Replaced
           THEN /\ Original.exists
                /\ Resolves(Original.data, filename)
                /\ fs[filename] = FileOf(Transformed(Original.data, filename))
                /\ ~fs[temp_output_path].exists
                /\ out_buf = <<>>
           ELSE fs[filename] = Original

C1_Witness ==
    /\ Replaced
    /\ filename = STOPS_FILENAME
    /\ Len(Original.data) = 1 + MaxRows
    /\ fs[filename] # Original

(***************************************************************************)
(* C2.  When the header lacks a required latitude or longitude column, the *)
(* call never creates the temporary file, leaves the directory as it was,  *)
(* and returns an error.                                                   *)
(***************************************************************************)
C2_MissingColumnLeavesNoTemp ==
    (InCall /\ Original.exists /\ ~Resolves(Original.data, filename)) =>
        /\ ~temp_created
        /\ fs = fs_at_call
        /\ Returned => CurrentResult.tag = "Err"

C2_Witness ==
    /\ Returned
    /\ CurrentResult.kind = "ColumnNotFound"
    /\ Len(Original.data) > 1
    /\ ~fs[temp_output_path].exists

(***************************************************************************)
(* C3.  As claimed: when the header resolves and no I/O step fails, a row  *)
(* too short to reach the larger coordinate position is dropped and the    *)
(* call still succeeds, replacing the file by the header and the other     *)
(* rows transformed.                                                       *)
(***************************************************************************)
C3_ShortRowIsSkipped ==
    (/\ Returned
     /\ Original.exists
     /\ Resolves(Original.data, filename)
     /\ \A k \in 2..Len(Original.data) :
            \/ Len(Original.data[k]) = Len(Original.data[1])
            \/ TooShort(Original.data[k], Original.data, filename)
     /\ CurrentResult.kind \notin IoKinds)
    => /\ CurrentResult = Ok
       /\ fs[filename] = FileOf(Transformed(Original.data, filename))

(***************************************************************************)
(* C4.  As claimed: when stops.txt is missing, its processing returns an   *)
(* error.                                                                  *)
(***************************************************************************)
C4_MissingStopsFails ==
    (pc = "after_stops" /\ ~fs_at_call[STOPS_FILENAME].exists)
    => stops_result.tag = "Err"

(***************************************************************************)
(* C5.  In a file that was replaced, the header is the input's header, the *)
(* rows are input rows in input order, and each has the field count of its *)
(* input row and the same text in every field but the two coordinate ones. *)
(***************************************************************************)
C5_OtherFieldsUntouched ==
    Replaced =>
        LET in == Original.data
            out == fs[filename].data
            la == LatIndex(in, filename)
            lo == LonIndex(in, filename)
        IN  /\ out[1] = in[1]
            /\ Len(out) = 1 + Len(kept_rows)
            /\ \A k \in 1..Len(kept_rows) :
                /\ kept_rows[k] \in 2..Len(in)
                /\ k > 1 => kept_rows[k - 1] < kept_rows[k]
                /\ Len(out[k + 1]) = Len(in[kept_rows[k]])
                /\ \A i \in 1..Len(out[k + 1]) :
                     (i - 1 # la /\ i - 1 # lo) => out[k + 1][i] = in[kept_rows[k]][i]

C5_Witness ==
    /\ Replaced
    /\ Len(kept_rows) = MaxRows
    /\ \E i \in 1..Len(Original.data[1]) :
        /\ i - 1 # LatIndex(Original.data, filename)
        /\ i - 1 # LonIndex(Original.data, filename)
        /\ format_coordinate(Original.data[2][i]) # Original.data[2][i]
    /\ fs[filename].data[2] # Original.data[2]

(***************************************************************************)
(* C6.  As claimed: format_coordinate returns a text that does not parse   *)
(* as a number unchanged, and renders one that does with exactly 8 digits  *)
(* after the decimal point.                                                *)
(***************************************************************************)
\* An optional minus sign, digits, a point, and n digits.
HasDecimals(s, n) ==
    LET body == IF s # <<>> /\ Head(s) = "-" THEN Tail(s) ELSE s
        m == Len(body)
    IN  /\ m >= n + 2
        /\ body[m - n] = "."
        /\ \A i \in 1..m : i # m - n => IsDigit(body[i])

C6_UnchangedOrEightDecimals ==
    formatted # Unformatted =>
        IF ParseF64(trim(value_str)).ok
        THEN HasDecimals(formatted, COORDINATE_PRECISION)
        ELSE formatted = value_str

(***************************************************************************)
(* C7.  As claimed: each resolved position is that of a header field equal *)
(* to the required name when case is ignored.                              *)
(***************************************************************************)
Resolved == InCall /\ pc \in {"create", "write_header", "records", "flush", "rename"}

C7_PositionOfEqualField ==
    Resolved =>
        /\ lat_col_idx + 1 \in ExactMatches(headers, lat_col_name(filename))
        /\ lon_col_idx + 1 \in ExactMatches(headers, lon_col_name(filename))

(***************************************************************************)
(* C7, amended.  Each resolved position is that of the last header field   *)
(* which, once surrounding whitespace is trimmed, equals the required name *)
(* when case is ignored; it stays so for all rows of the file; and the     *)
(* call returns an error naming the first required column that no header   *)
(* field matches in that way, which it does whenever there is one.         *)
(***************************************************************************)
C7_PositionOfTrimmedEqualField ==
    /\ Resolved =>
        /\ headers = HeaderOf(Original.data)
        /\ Resolves(Original.data, filename)
        /\ lat_col_idx = LatIndex(Original.data, filename)
        /\ lon_col_idx = LonIndex(Original.data, filename)
    /\ (Returned /\ CurrentResult.kind = "ColumnNotFound") =>
        LET hdr == HeaderOf(Original.data)
            lat == lat_col_name(filename)
            lon == lon_col_name(filename)
        IN  IF Matches(hdr, lat) = {}
            THEN CurrentResult.column = lat
            ELSE CurrentResult.column = lon /\ Matches(hdr, lon) = {}

C7_Witness ==
    /\ Resolved
    /\ pc = "records"
    /\ next_rec > Len(input)
    /\ Len(input) = 1 + MaxRows
    /\ trim(headers[lat_col_idx + 1]) # headers[lat_col_idx + 1]
    /\ headers[lon_col_idx + 1] # lon_col_name(filename)

(***************************************************************************)
(* C8.  Once a file has been rewritten, running the program again on the   *)
(* rewritten file leaves it with the content the first rewrite gave it.    *)
(***************************************************************************)
C8_SecondRunChangesNothing ==
    \A f \in Filenames :
        first_rewrite[f].done => fs[f] = FileOf(first_rewrite[f].after)

C8_Witness ==
    /\ Replaced
    /\ first_rewrite[filename].done
    /\ first_rewrite[filename].before # first_rewrite[filename].after
    /\ Original.data = first_rewrite[filename].after
    /\ Len(Original.data) = 1 + MaxRows

(***************************************************************************)
(* C9.  The program exits with 0 exactly when it had two arguments, the    *)
(* path was a directory and both calls of process_gtfs_file returned Ok,   *)
(* and with 1 exactly when the argument count was wrong, the path was not  *)
(* a directory, or a call returned an error.                               *)
(***************************************************************************)
C9_ExitCode ==
    pc = "exited" =>
        LET usable == argc = 2 /\ is_dir
            failed == stops_result.tag = "Err" \/ shapes_result.tag = "Err"
        IN  /\ exit_code \in {<<0>>, <<1>>}
            /\ exit_code = <<0>> <=>
                 usable /\ stops_result = Ok /\ shapes_result = Ok
            /\ exit_code = <<1>> <=> ~usable \/ failed
            /\ ~usable => stops_result = Pending /\ shapes_result = Pending
            /\ stops_result.tag = "Err" => shapes_result = Pending

C9_Witness ==
    /\ pc = "exited"
    /\ exit_code = <<1>>
    /\ stops_result = Ok
    /\ shapes_result.tag = "Err"
    /\ shapes_result.kind \in IoKinds

(***************************************************************************)
(* C10.  As claimed: a call returns leaving a temporary file it created    *)
(* only when writing a row failed.                                         *)
(***************************************************************************)
LeftTemp == Returned /\ temp_created /\ fs[temp_output_path].exists

AfterCreateKinds == {"WriteHeader", "ReadRecord", "UnequalLengths", "WriteRecord",
                     "StdoutFlush", "Flush", "Rename"}
BeforeCreateKinds == {"Open", "ReadHeaders", "ColumnNotFound", "Create"}

====
